---- MODULE Spec2Model ----
(***************************************************************************)
(* LED intensity controller (PIC24F): the main control loop of main.c, the *)
(* button sampler of IOs.c, the brightness/blink/telemetry functions of    *)
(* PWM.c and the Timer1 (PWM), Timer2 (blink), Timer3 (delay) and change-  *)
(* notification interrupt handlers.                                        *)
(*                                                                         *)
(* The main loop is a sequence of steps, one per access to a variable it   *)
(* shares with an interrupt handler (pc is its position); an interrupt     *)
(* handler is one step that may be taken between any two main-loop steps.  *)
(* Handlers are modelled as atomic with respect to each other.             *)
(* _CNInterrupt (priority 6) writes only buttonFlag, which no other        *)
(* handler accesses.  Timer1 keeps the reset priority 4 (timerInit writes  *)
(* INT1IP, not T1IP) and may nest inside Timer2 (priority 3); with         *)
(* blinkEnabled set it rewrites currentDutyCycle with itself, which leaves *)
(* the same final state as Timer1 taken before Timer2.                     *)
(*                                                                         *)
(* Timing kept by the model: Timer1 runs with PR1 = period = 50 at         *)
(* prescale 1:1 (PWM.c:25, timeDelay.c:14,39), so while it is on it fires   *)
(* every 51 instruction cycles.  An A/D conversion takes 31 + 12 TAD of 64 *)
(* cycles each (ADC.c:31,34), and the path from the end of one             *)
(* handleStateTransition to the LED write after delay_ms(20) of the next   *)
(* goes through Idle(); both are longer than one Timer1 period, so a       *)
(* running Timer1 fires at least once inside each (t1Seen).                *)
(*                                                                         *)
(* Specifications: Spec is the program from boot with any button activity  *)
(* and a few sensor values; SpecScale runs the passes in ON_MODE over the  *)
(* whole range of the converter; Spec512 is the program with the sensor at *)
(* mid scale and the buttons worked in the order PB1, PB2, PB3; SpecTaps   *)
(* counts the presses of PB1 between two reads of it; SpecCorrupt starts   *)
(* with a mode that is none of the six; SpecPwm counts one period of       *)
(* Timer1 interrupts from every counter value and duty cycle;              *)
(* SpecBlinkTick works PB2 between OFF_MODE and OFF_BLINK, counts the      *)
(* Timer2 interrupts and takes the two writes of stopBlink() one at a      *)
(* time; SpecLive is the program from boot with the sensor at mid scale    *)
(* under weak fairness of the main program, of Timer3 and of Timer1, of    *)
(* which it follows the first MaxLiveTicks interrupts (a conversion or a   *)
(* delay after them no longer waits for one).                              *)
(***************************************************************************)
EXTENDS Integers, Sequences, FiniteSets, TLC

\* ---- bounds of the model ------------------------------------------------
\* number of distinct sensor samples the A/D converter may return
NumSamples == 3
\* Timer1 interrupts taken in one behaviour
MaxT1Ticks == 4

\* Timer1 interrupts taken in one behaviour of the mid-scale scenario
MaxScenarioTicks == 6

\* presses of one button counted between two samples of it
MaxTaps == 2

\* Timer2 interrupts counted in one behaviour
MaxT2Ticks == 3

\* Timer1 interrupts followed in a behaviour of the fair specification
MaxLiveTicks == 2

\* largest out-of-range value the mode is corrupted to
MaxCorruptMode == 7

\* ---- program constants --------------------------------------------------
OFF_MODE == 0
OFF_BLINK == 1
ON_MODE == 2
ON_BLINK == 3
TRANSMIT_UART_ON == 4
TRANSMIT_UART_BLINK == 5

\* full scale of the 10-bit converter, the divisor of the scaling
ADC_MAX == 1023
\* pwmControl.period as initialised
PERIOD == 50

Modes == {OFF_MODE, OFF_BLINK, ON_MODE, ON_BLINK, TRANSMIT_UART_ON, TRANSMIT_UART_BLINK}
BlinkModes == {OFF_BLINK, ON_BLINK, TRANSMIT_UART_BLINK}
TransmitModes == {TRANSMIT_UART_ON, TRANSMIT_UART_BLINK}
Btn == 0..2

\* the k-th sample value of the sensor: mid scale, full scale, zero, then
\* further values spread over the range
SampleValue(k) ==
    IF k = 1 THEN 512
    ELSE IF k = 2 THEN ADC_MAX
    ELSE IF k = 3 THEN 0
    ELSE (k * 300) % (ADC_MAX + 1)

Samples == {SampleValue(k) : k \in 1..NumSamples}

VARIABLES
    systemState,   \* [currentState]
    buttons,       \* Btn -> [pressed, newState, prevState]
    buttonFlag,    \* set by _CNInterrupt, cleared by main
    pwmCounter,    \* uint8 PWM counter of _T1Interrupt
    pwmControl,    \* the PWMControl record
    LED,           \* LATB8
    T1ON, T2ON,    \* T1CONbits.TON, T2CONbits.TON
    PB,            \* Btn -> level of the button pin (1 released, 0 pressed)
    pc,            \* position of the main loop
    i,             \* loop index of IOcheck
    blinkStateReg, \* value of pwmControl.blinkState read by updateBrightness
    t1Seen,        \* Timer1 has fired since the last long operation began
    t1Ticks,       \* Timer1 interrupts taken so far
    passState,     \* currentState at the beginning of the control-loop pass
    updates,       \* updateBrightness calls completed in this pass
    uartOut,       \* telemetry lines (character sequences) sent in this pass
    blinkOffBy2,   \* "pending": PB2 has disabled blink and Timer1 has not fired
                   \* since; "done": it has fired since; "none" otherwise
    taps,          \* Btn -> presses of the button since IOcheck last read it
    meter          \* counts of the interrupts taken in a measured window

vars == <<systemState, buttons, buttonFlag, pwmCounter, pwmControl, LED, T1ON,
          T2ON, PB, pc, i, blinkStateReg, t1Seen, t1Ticks, passState, updates,
          uartOut, blinkOffBy2, taps, meter>>

\* ---- pure functions -----------------------------------------------------

\* a scaling that divides by 1000 instead of the full-scale code
ScaleADCDiv1000(adcValue, period) ==
    ((adcValue * period) \div 1000) % 256

\* a scaling that divides by the number of codes of the converter
ScaleADCDiv1024(adcValue, period) ==
    ((adcValue * period) \div (ADC_MAX + 1)) % 256

\* (uint8_t)((uint32_t)adcValue * period / 1023); the 32-bit product of a
\* uint16_t and a uint8_t is below 2^24 and never wraps
ScaleADC(adcValue, period) ==
    ((adcValue * period) \div ADC_MAX) % 256

\* a telemetry value that is the duty cycle itself, not its percentage
DutyPercentUnscaled(currentDutyCycle, period) ==
    currentDutyCycle % 256

\* uint8_t dutyPercent = (uint32_t)currentDutyCycle * 100 / period; the
\* 32-bit product is at most 25500
DutyPercent(currentDutyCycle, period) ==
    ((currentDutyCycle * 100) \div period) % 256

RECURSIVE Pow10(_)
Pow10(n) == IF n = 0 THEN 1 ELSE (10 * Pow10(n - 1)) % 65536

\* the character '0' + d
DigitChar(d) == <<"0", "1", "2", "3", "4", "5", "6", "7", "8", "9">>[d + 1]

RECURSIVE DispDigits(_, _)
DispDigits(number, divisor) ==
    IF divisor = 0 THEN <<>>
    ELSE <<DigitChar((number \div divisor) % 10)>>
             \o DispDigits(number, divisor \div 10)

\* the characters DispNum writes to U2TXREG, most significant digit first
DispNum(number, digits) == DispDigits(number, Pow10(digits - 1))

\* the characters XmitUART2 writes to U2TXREG
XmitUART2(character, count) == [k \in 1..count |-> character]

\* an iteration that flags the falling edge (the press) instead of the release
IOcheckButtonFallingEdge(b, level) ==
    IF level # b.prevState
    THEN [pressed   |-> IF b.prevState = 1 /\ level = 0 THEN 1 ELSE b.pressed,
          newState  |-> level,
          prevState |-> level]
    ELSE [b EXCEPT !.newState = level]

\* one iteration of the loop of IOcheck on button record b, the pin reading level
IOcheckButton(b, level) ==
    IF level # b.prevState
    THEN [pressed   |-> IF b.prevState = 0 /\ level = 1 THEN 1 ELSE b.pressed,
          newState  |-> level,
          prevState |-> level]
    ELSE [b EXCEPT !.newState = level]

\* The if/else-if chain that ends each case of handleStateTransition: the
\* state after a pass that ran in that case with the pressed flags p.
CaseOffMode(p) ==
    IF p[0] # 0 THEN ON_MODE
    ELSE IF p[1] # 0 THEN OFF_BLINK
    ELSE OFF_MODE

\* a case with no way out
CaseOffBlinkStuck(p) == OFF_BLINK

CaseOffBlink(p) ==
    IF p[1] # 0 THEN OFF_MODE ELSE OFF_BLINK

\* a chain that tests PB2 before PB1
CaseOnModePB2First(p) ==
    IF p[1] # 0 THEN ON_BLINK
    ELSE IF p[0] # 0 THEN OFF_MODE
    ELSE IF p[2] # 0 THEN TRANSMIT_UART_ON
    ELSE ON_MODE

CaseOnMode(p) ==
    IF p[0] # 0 THEN OFF_MODE
    ELSE IF p[1] # 0 THEN ON_BLINK
    ELSE IF p[2] # 0 THEN TRANSMIT_UART_ON
    ELSE ON_MODE

\* a chain whose PB3 branch goes to the steady transmit state
CaseOnBlinkWrongTarget(p) ==
    IF p[1] # 0 THEN ON_MODE
    ELSE IF p[2] # 0 THEN TRANSMIT_UART_ON
    ELSE ON_BLINK

CaseOnBlink(p) ==
    IF p[1] # 0 THEN ON_MODE
    ELSE IF p[2] # 0 THEN TRANSMIT_UART_BLINK
    ELSE ON_BLINK

CaseTransmitOn(p) ==
    IF p[0] # 0 THEN OFF_MODE
    ELSE IF p[1] # 0 THEN TRANSMIT_UART_BLINK
    ELSE IF p[2] # 0 THEN ON_MODE
    ELSE TRANSMIT_UART_ON

CaseTransmitBlink(p) ==
    IF p[1] # 0 THEN TRANSMIT_UART_ON
    ELSE IF p[2] # 0 THEN ON_BLINK
    ELSE TRANSMIT_UART_BLINK

\* a default case that leaves the state as it found it
CaseDefaultKeep(s) == s

\* default: systemState.currentState = OFF_MODE
CaseDefault(s) == OFF_MODE

\* switch (systemState.currentState): the state after the pass that ran in
\* state s with the pressed flags p (Btn -> 0/1)
Transition(s, p) ==
    IF s = OFF_MODE THEN CaseOffMode(p)
    ELSE IF s = OFF_BLINK THEN CaseOffBlink(p)
    ELSE IF s = ON_MODE THEN CaseOnMode(p)
    ELSE IF s = ON_BLINK THEN CaseOnBlink(p)
    ELSE IF s = TRANSMIT_UART_ON THEN CaseTransmitOn(p)
    ELSE IF s = TRANSMIT_UART_BLINK THEN CaseTransmitBlink(p)
    ELSE CaseDefault(s)

\* PB2 branches that leave the blinking on
CallsStopBlinkNever(s, p) == FALSE

\* the cases whose PB2 branch calls stopBlink()
CallsStopBlink(s, p) == s \in BlinkModes /\ p[1] # 0

\* only the steady transmit case calls transmitVoltageADC()
CallsTransmitSteadyOnly(s) == s = TRANSMIT_UART_ON

\* the cases that call transmitVoltageADC() after updateBrightness()
CallsTransmit(s) == s \in TransmitModes

\* a handler that keeps the active duty cycle whatever the blink flag
T1DutyKeep(pwm) == pwm.currentDutyCycle

\* a handler that renders the base duty cycle whatever the blink flag
T1DutyBase(pwm) == pwm.baseDutyCycle

\* the duty cycle _T1Interrupt renders
T1Duty(pwm) ==
    IF pwm.blinkEnabled # 0 THEN pwm.currentDutyCycle ELSE pwm.baseDutyCycle

\* Idle() of delay_ms returns when any interrupt is taken
Wake(p) == IF p = "idle" THEN "off_led" ELSE p

Pressed == [b \in Btn |-> buttons[b].pressed]

\* ---- initial state ------------------------------------------------------

\* System_t systemState = { .currentState = OFF_MODE }
systemStateInit == [currentState |-> OFF_MODE]

\* buttons whose previous level starts low, as if they were held at power-up
buttonsInitLow ==
    [b \in Btn |-> [pressed |-> 0, newState |-> 1, prevState |-> 0]]

\* Button buttons[3]: every button starts released, with no press recorded
buttonsInit ==
    [b \in Btn |-> [pressed |-> 0, newState |-> 1, prevState |-> 1]]

\* a record whose period initialiser is missing
pwmControlInitZeroPeriod ==
    [period |-> 0, baseDutyCycle |-> 0, blinkDutyCycle |-> 0,
     currentDutyCycle |-> 0, blinkEnabled |-> 0, blinkState |-> 0,
     adcValue |-> 0]

\* PWMControl pwmControl: the period and all duty cycles at 0, blink off;
\* adcValue has no initialiser and is zeroed with the rest of the object
pwmControlInit ==
    [period |-> PERIOD, baseDutyCycle |-> 0, blinkDutyCycle |-> 0,
     currentDutyCycle |-> 0, blinkEnabled |-> 0, blinkState |-> 0,
     adcValue |-> 0]

\* nothing measured yet: Timer1 interrupts of the window and those that left
\* the LED high, Timer2 interrupts and those taken with blink disabled
MeterZero == [t1 |-> 0, high |-> 0, t2 |-> 0, t2off |-> 0]

\* the program after its initialisers and before the first pass of the loop
Boot ==
    /\ meter = MeterZero
    /\ systemState = systemStateInit
    /\ buttons = buttonsInit
    /\ buttonFlag = 0
    /\ pwmCounter = 0
    /\ pwmControl = pwmControlInit
    /\ LED = 0
    /\ T1ON = FALSE
    /\ T2ON = FALSE
    /\ PB = [b \in Btn |-> 1]
    /\ pc = "loop"
    /\ i = 0
    /\ blinkStateReg = 0
    /\ t1Seen = FALSE
    /\ t1Ticks = 0
    /\ passState = OFF_MODE
    /\ updates = 0
    /\ uartOut = <<>>
    /\ blinkOffBy2 = "none"

Init ==
    /\ Boot
    /\ taps = [b \in Btn |-> 0]

\* ---- interrupt handlers -------------------------------------------------

\* a button pin changes level; the change notification interrupt (priority 6,
\* never masked) is taken at once
PinChange(b) ==
    /\ PB' = [PB EXCEPT ![b] = 1 - PB[b]]
    /\ buttonFlag' = 1
    /\ pc' = Wake(pc)
    /\ UNCHANGED <<meter, systemState, buttons, pwmCounter, pwmControl, LED, T1ON, T2ON,
                   i, blinkStateReg, t1Seen, t1Ticks, passState, updates,
                   uartOut, blinkOffBy2>>

_CNInterrupt(b) ==
    /\ PinChange(b)
    /\ UNCHANGED taps

\* the same, counting the presses of a button IOcheck has read before (up to
\* MaxTaps)
_CNInterruptCounted(b) ==
    /\ PinChange(b)
    /\ taps' = [taps EXCEPT ![b] =
                   IF @ >= 0 /\ @ < MaxTaps /\ PB[b] = 1 THEN @ + 1 ELSE @]

\* an output that is also high when the counter equals the duty cycle
LedLevelInclusive(counter, duty) == IF counter <= duty THEN 1 ELSE 0

\* LED = (pwmCounter < pwmControl.currentDutyCycle) ? 1 : 0
LedLevel(counter, duty) == IF counter < duty THEN 1 ELSE 0

\* the body of the Timer1 handler
T1Core ==
    /\ T1ON
    /\ pwmCounter' = ((pwmCounter + 1) % pwmControl.period) % 256
    /\ pwmControl' = [pwmControl EXCEPT !.currentDutyCycle = T1Duty(pwmControl)]
    /\ LED' = LedLevel(pwmCounter', pwmControl'.currentDutyCycle)
    /\ pc' = Wake(pc)
    /\ t1Seen' = TRUE
    /\ blinkOffBy2' = IF blinkOffBy2 = "pending" THEN "done" ELSE blinkOffBy2
    /\ UNCHANGED <<taps, systemState, buttons, buttonFlag, T1ON, T2ON, PB, i,
                   blinkStateReg, passState, updates, uartOut>>

\* the Timer1 handler, taken at most budget times in one behaviour
T1Handler(budget) ==
    /\ t1Ticks < budget
    /\ T1Core
    /\ t1Ticks' = t1Ticks + 1
    /\ UNCHANGED meter

_T1Interrupt == T1Handler(MaxT1Ticks)

\* a handler that toggles the phase whatever the blink flag
T2BlinkUnguarded(pwm) ==
    LET bs == IF pwm.blinkState = 0 THEN 1 ELSE 0
    IN  [pwm EXCEPT
           !.blinkState = bs,
           !.currentDutyCycle = IF bs # 0 THEN pwm.blinkDutyCycle ELSE 0]

\* pwmControl after the body of the Timer2 handler
T2Blink(pwm) ==
    IF pwm.blinkEnabled # 0
    THEN LET bs == IF pwm.blinkState = 0 THEN 1 ELSE 0
         IN  [pwm EXCEPT
                !.blinkState = bs,
                !.currentDutyCycle = IF bs # 0 THEN pwm.blinkDutyCycle ELSE 0]
    ELSE pwm

T2Core ==
    /\ T2ON
    /\ pwmControl' = T2Blink(pwmControl)
    /\ pc' = Wake(pc)
    /\ UNCHANGED <<taps, systemState, buttons, buttonFlag, pwmCounter, LED, T1ON, T2ON,
                   PB, i, blinkStateReg, t1Seen, t1Ticks, passState, updates,
                   uartOut, blinkOffBy2>>

_T2Interrupt ==
    /\ T2Core
    /\ UNCHANGED meter

\* Timer3 runs only inside delay_ms
_T3Interrupt ==
    /\ pc = "idle"
    /\ pc' = "off_led"
    /\ UNCHANGED <<meter, taps, systemState, buttons, buttonFlag, pwmCounter, pwmControl, LED,
                   T1ON, T2ON, PB, i, blinkStateReg, t1Seen, t1Ticks, passState,
                   updates, uartOut, blinkOffBy2>>

\* ---- main loop ----------------------------------------------------------

\* while (1) { if (buttonFlag) ...
LoopTop ==
    /\ pc = "loop"
    /\ pc' = IF buttonFlag # 0 THEN "io" ELSE "hst"
    /\ i' = 0
    /\ passState' = systemState.currentState
    /\ updates' = 0
    /\ uartOut' = <<>>
    /\ UNCHANGED <<meter, taps, systemState, buttons, buttonFlag, pwmCounter, pwmControl, LED,
                   T1ON, T2ON, PB, blinkStateReg, t1Seen, t1Ticks, blinkOffBy2>>

\* one iteration of the for loop of IOcheck: button i is read and compared
IOcheckStep ==
    /\ pc = "io"
    /\ i < 3
    /\ buttons' = [buttons EXCEPT ![i] = IOcheckButton(buttons[i], PB[i])]
    /\ i' = i + 1
    /\ taps' = [taps EXCEPT ![i] = 0]
    /\ UNCHANGED <<meter, systemState, buttonFlag, pwmCounter, pwmControl, LED, T1ON,
                   T2ON, PB, pc, blinkStateReg, t1Seen, t1Ticks, passState,
                   updates, uartOut, blinkOffBy2>>

\* return 0; buttonFlag = IOcheck();
IOcheckReturn ==
    /\ pc = "io"
    /\ i = 3
    /\ buttonFlag' = 0
    /\ i' = 0
    /\ pc' = "hst"
    /\ UNCHANGED <<meter, taps, systemState, buttons, pwmCounter, pwmControl, LED, T1ON, T2ON,
                   PB, blinkStateReg, t1Seen, t1Ticks, passState, updates,
                   uartOut, blinkOffBy2>>

\* an OFF_MODE case that updates the brightness
OffDelayUpdating ==
    /\ pc = "hst"
    /\ systemState.currentState = OFF_MODE
    /\ pc' = "ub_start"
    /\ UNCHANGED <<meter, taps, systemState, buttons, buttonFlag, pwmCounter,
                   pwmControl, LED, T1ON, T2ON, PB, i, blinkStateReg, t1Seen,
                   t1Ticks, passState, updates, uartOut, blinkOffBy2>>

\* case OFF_MODE: delay_ms(20) starts Timer3 and enters Idle()
OffDelay ==
    /\ pc = "hst"
    /\ systemState.currentState = OFF_MODE
    /\ pc' = "idle"
    /\ UNCHANGED <<meter, taps, systemState, buttons, buttonFlag, pwmCounter, pwmControl, LED,
                   T1ON, T2ON, PB, i, blinkStateReg, t1Seen, t1Ticks, passState,
                   updates, uartOut, blinkOffBy2>>

\* LED = 0
OffLedWrite ==
    /\ pc = "off_led"
    /\ LED' = 0
    /\ pc' = "off_stopBlink"
    /\ UNCHANGED <<meter, taps, systemState, buttons, buttonFlag, pwmCounter, pwmControl, T1ON,
                   T2ON, PB, i, blinkStateReg, t1Seen, t1Ticks, passState,
                   updates, uartOut, blinkOffBy2>>

\* the same, reached after a delay in which a running Timer1 has fired
OffLed ==
    /\ T1ON => t1Seen
    /\ OffLedWrite

\* stopBlink()
OffStopBlink ==
    /\ pc = "off_stopBlink"
    /\ pwmControl' = [pwmControl EXCEPT !.blinkEnabled = 0]
    /\ T2ON' = FALSE
    /\ pc' = "off_stopTimers"
    /\ UNCHANGED <<meter, taps, systemState, buttons, buttonFlag, pwmCounter, LED, T1ON, PB, i,
                   blinkStateReg, t1Seen, t1Ticks, passState, updates, uartOut,
                   blinkOffBy2>>

\* stopTimer1(); stopTimer2()
OffStopTimers ==
    /\ pc = "off_stopTimers"
    /\ T1ON' = FALSE
    /\ T2ON' = FALSE
    /\ pc' = "trans"
    /\ UNCHANGED <<meter, taps, systemState, buttons, buttonFlag, pwmCounter, pwmControl, LED,
                   PB, i, blinkStateReg, t1Seen, t1Ticks, passState, updates,
                   uartOut, blinkOffBy2>>

\* blink() at the head of the three blink cases
Blink ==
    /\ pc = "hst"
    /\ systemState.currentState \in BlinkModes
    /\ pwmControl' = [pwmControl EXCEPT !.blinkEnabled = 1]
    /\ T2ON' = TRUE
    /\ blinkOffBy2' = IF blinkOffBy2 = "done" THEN "none" ELSE blinkOffBy2
    /\ pc' = "ub_start"
    /\ UNCHANGED <<meter, taps, systemState, buttons, buttonFlag, pwmCounter, LED, T1ON, PB, i,
                   blinkStateReg, t1Seen, t1Ticks, passState, updates, uartOut>>

\* updateBrightness: startTimer1(period), do_ADC() starts the conversion
UpdateStart ==
    /\ \/ pc = "ub_start"
       \/ pc = "hst" /\ systemState.currentState \in {ON_MODE, TRANSMIT_UART_ON}
    /\ T1ON' = TRUE
    /\ t1Seen' = FALSE
    /\ pc' = "ub_adc"
    /\ UNCHANGED <<meter, taps, systemState, buttons, buttonFlag, pwmCounter, pwmControl, LED,
                   T2ON, PB, i, blinkStateReg, t1Ticks, passState, updates,
                   uartOut, blinkOffBy2>>

\* the override argument of the call of updateBrightness in state s
Override(s, pwm) == IF s = OFF_BLINK THEN pwm.period ELSE 0

\* updateBrightness: the conversion is done; adcValue and baseDutyCycle
Conversion(sample) ==
    /\ pc = "ub_adc"
    /\ LET o == Override(systemState.currentState, pwmControl)
       IN  pwmControl' = [pwmControl EXCEPT
               !.adcValue = sample,
               !.baseDutyCycle =
                   IF o = 0 THEN ScaleADC(sample, pwmControl.period) ELSE o]
    /\ pc' = "ub_mode"
    /\ UNCHANGED <<meter, taps, systemState, buttons, buttonFlag, pwmCounter, LED, T1ON, T2ON,
                   PB, i, blinkStateReg, t1Seen, t1Ticks, passState, updates,
                   uartOut, blinkOffBy2>>

\* the same, Timer1 having fired during the conversion
UpdateBase(sample) ==
    /\ t1Seen
    /\ Conversion(sample)

\* the position after updateBrightness returns
AfterUpdate(s) == IF CallsTransmit(s) THEN "tx" ELSE "trans"

\* an update that keeps the on-phase brightness it had
BlinkDutyCycleStale(pwm) == pwm.blinkDutyCycle

\* updateBrightness, blink enabled: blinkDutyCycle = baseDutyCycle
BlinkDutyCycle(pwm) == pwm.baseDutyCycle

\* updateBrightness: if (!blinkEnabled) currentDutyCycle = baseDutyCycle;
\*                   else blinkDutyCycle = baseDutyCycle ...
UpdateMode ==
    /\ pc = "ub_mode"
    /\ IF pwmControl.blinkEnabled = 0
       THEN /\ pwmControl' = [pwmControl EXCEPT
                   !.currentDutyCycle = pwmControl.baseDutyCycle]
            /\ pc' = AfterUpdate(systemState.currentState)
            /\ updates' = updates + 1
       ELSE /\ pwmControl' = [pwmControl EXCEPT
                   !.blinkDutyCycle = BlinkDutyCycle(pwmControl)]
            /\ pc' = "ub_read"
            /\ updates' = updates
    /\ UNCHANGED <<meter, taps, systemState, buttons, buttonFlag, pwmCounter, LED, T1ON, T2ON,
                   PB, i, blinkStateReg, t1Seen, t1Ticks, passState, uartOut,
                   blinkOffBy2>>

\* updateBrightness: blinkState is read
UpdateReadBlinkState ==
    /\ pc = "ub_read"
    /\ blinkStateReg' = pwmControl.blinkState
    /\ pc' = "ub_cur"
    /\ UNCHANGED <<meter, taps, systemState, buttons, buttonFlag, pwmCounter, pwmControl, LED,
                   T1ON, T2ON, PB, i, t1Seen, t1Ticks, passState, updates,
                   uartOut, blinkOffBy2>>

\* updateBrightness: currentDutyCycle = blinkState ? blinkDutyCycle : 0
UpdateCurrent ==
    /\ pc = "ub_cur"
    /\ pwmControl' = [pwmControl EXCEPT
           !.currentDutyCycle =
               IF blinkStateReg # 0 THEN pwmControl.blinkDutyCycle ELSE 0]
    /\ blinkStateReg' = 0
    /\ updates' = updates + 1
    /\ pc' = AfterUpdate(systemState.currentState)
    /\ UNCHANGED <<meter, taps, systemState, buttons, buttonFlag, pwmCounter, LED, T1ON, T2ON,
                   PB, i, t1Seen, t1Ticks, passState, uartOut, blinkOffBy2>>

\* transmitVoltageADC()
TransmitVoltageADC ==
    /\ pc = "tx"
    /\ LET dutyPercent == DutyPercent(pwmControl.currentDutyCycle,
                                      pwmControl.period)
       IN  uartOut' = Append(uartOut,
               DispNum(dutyPercent, 3) \o XmitUART2(" ", 1)
                 \o DispNum(pwmControl.adcValue, 4) \o XmitUART2("\n", 1))
    /\ pc' = "trans"
    /\ UNCHANGED <<meter, taps, systemState, buttons, buttonFlag, pwmCounter, pwmControl, LED,
                   T1ON, T2ON, PB, i, blinkStateReg, t1Seen, t1Ticks, passState,
                   updates, blinkOffBy2>>

\* the state transitions at the end of each case, with stopBlink() where the
\* PB2 branch of a blink case calls it
StateTransition ==
    /\ pc = "trans"
    /\ systemState' = [systemState EXCEPT
           !.currentState = Transition(systemState.currentState, Pressed)]
    /\ IF CallsStopBlink(systemState.currentState, Pressed)
       THEN /\ pwmControl' = [pwmControl EXCEPT !.blinkEnabled = 0]
            /\ T2ON' = FALSE
            /\ blinkOffBy2' = "pending"
       ELSE UNCHANGED <<pwmControl, T2ON, blinkOffBy2>>
    /\ t1Seen' = FALSE
    /\ pc' = "clear"
    /\ UNCHANGED <<meter, taps, buttons, buttonFlag, pwmCounter, LED, T1ON, PB, i,
                   blinkStateReg, t1Ticks, passState, updates, uartOut>>

\* a clearing loop that stops after two buttons
ClearPressedTwo ==
    /\ pc = "clear"
    /\ buttons' = [b \in Btn |->
                     IF b < 2 THEN [buttons[b] EXCEPT !.pressed = 0]
                     ELSE buttons[b]]
    /\ pc' = "loop"
    /\ UNCHANGED <<meter, taps, systemState, buttonFlag, pwmCounter, pwmControl,
                   LED, T1ON, T2ON, PB, i, blinkStateReg, t1Seen, t1Ticks,
                   passState, updates, uartOut, blinkOffBy2>>

\* a clearing step that also resets the mode
ClearPressedAndMode ==
    /\ pc = "clear"
    /\ buttons' = [b \in Btn |-> [buttons[b] EXCEPT !.pressed = 0]]
    /\ systemState' = [systemState EXCEPT !.currentState = OFF_MODE]
    /\ pc' = "loop"
    /\ UNCHANGED <<meter, taps, buttonFlag, pwmCounter, pwmControl, LED, T1ON,
                   T2ON, PB, i, blinkStateReg, t1Seen, t1Ticks, passState,
                   updates, uartOut, blinkOffBy2>>

\* for (i = 0; i < 3; i++) buttons[i].pressed = 0;
ClearPressed ==
    /\ pc = "clear"
    /\ buttons' = [b \in Btn |-> [buttons[b] EXCEPT !.pressed = 0]]
    /\ pc' = "loop"
    /\ UNCHANGED <<meter, taps, systemState, buttonFlag, pwmCounter, pwmControl, LED, T1ON,
                   T2ON, PB, i, blinkStateReg, t1Seen, t1Ticks, passState,
                   updates, uartOut, blinkOffBy2>>

Next ==
    \/ \E b \in Btn : _CNInterrupt(b)
    \/ _T1Interrupt
    \/ _T2Interrupt
    \/ _T3Interrupt
    \/ LoopTop
    \/ IOcheckStep
    \/ IOcheckReturn
    \/ OffDelay
    \/ OffLed
    \/ OffStopBlink
    \/ OffStopTimers
    \/ Blink
    \/ UpdateStart
    \/ \E sample \in Samples : UpdateBase(sample)
    \/ UpdateMode
    \/ UpdateReadBlinkState
    \/ UpdateCurrent
    \/ TransmitVoltageADC
    \/ StateTransition
    \/ ClearPressed

Spec == Init /\ [][Next]_vars

\* ---- the blink tick around stopBlink --------------------------------------

\* the Timer2 handler, counted (up to MaxT2Ticks)
_T2InterruptCounted ==
    /\ meter.t2 < MaxT2Ticks
    /\ T2Core
    /\ meter' = [meter EXCEPT
           !.t2 = @ + 1,
           !.t2off = @ + (IF pwmControl.blinkEnabled = 0 THEN 1 ELSE 0)]

\* the state transitions at the end of each case; of stopBlink() only the
\* write of blinkEnabled, Timer2 still running
StateTransitionFlag ==
    /\ pc = "trans"
    /\ systemState' = [systemState EXCEPT
           !.currentState = Transition(systemState.currentState, Pressed)]
    /\ IF CallsStopBlink(systemState.currentState, Pressed)
       THEN /\ pwmControl' = [pwmControl EXCEPT !.blinkEnabled = 0]
            /\ blinkOffBy2' = "pending"
            /\ pc' = "stop_t2"
       ELSE /\ UNCHANGED <<pwmControl, blinkOffBy2>>
            /\ pc' = "clear"
    /\ t1Seen' = FALSE
    /\ UNCHANGED <<meter, taps, buttons, buttonFlag, pwmCounter, LED, T1ON, T2ON,
                   PB, i, blinkStateReg, t1Ticks, passState, updates, uartOut>>

\* stopTimer2() at the end of stopBlink()
StopTimer2 ==
    /\ pc = "stop_t2"
    /\ T2ON' = FALSE
    /\ pc' = "clear"
    /\ UNCHANGED <<meter, taps, systemState, buttons, buttonFlag, pwmCounter,
                   pwmControl, LED, T1ON, PB, i, blinkStateReg, t1Seen, t1Ticks,
                   passState, updates, uartOut, blinkOffBy2>>

\* the program with PB2 (buttons[1]) the only button worked, between OFF_MODE
\* and OFF_BLINK, the two writes of stopBlink() taken one at a time
NextBlinkTick ==
    \/ _CNInterrupt(1)
    \/ _T1Interrupt
    \/ _T2InterruptCounted
    \/ _T3Interrupt
    \/ LoopTop
    \/ IOcheckStep
    \/ IOcheckReturn
    \/ OffDelay
    \/ OffLed
    \/ OffStopBlink
    \/ OffStopTimers
    \/ Blink
    \/ UpdateStart
    \/ \E sample \in Samples : UpdateBase(sample)
    \/ UpdateMode
    \/ UpdateReadBlinkState
    \/ UpdateCurrent
    \/ StateTransitionFlag
    \/ StopTimer2
    \/ ClearPressed

SpecBlinkTick == Init /\ [][NextBlinkTick]_vars

\* ---- one period of the PWM ----------------------------------------------

\* the smallest sample that updateBrightness scales to the duty cycle d
DutySample(d) == (d * ADC_MAX + PERIOD - 1) \div PERIOD

\* The program in a pass in ON_MODE, waiting for the conversion to end, the
\* previous pass having left any duty cycle and Timer1 having brought the
\* counter to any of its values.  A conversion lasts 43 * 64 instruction
\* cycles, a period of the PWM 50 * 51.
InitPwm ==
    /\ systemState = [currentState |-> ON_MODE]
    /\ buttons = buttonsInit
    /\ buttonFlag = 0
    /\ \E d \in 0..PERIOD :
          pwmControl = [pwmControlInit EXCEPT
              !.adcValue = DutySample(d),
              !.baseDutyCycle = ScaleADC(DutySample(d), PERIOD),
              !.currentDutyCycle = ScaleADC(DutySample(d), PERIOD)]
    /\ pwmCounter \in 0..(PERIOD - 1)
    /\ LED = LedLevel(pwmCounter, pwmControl.currentDutyCycle)
    /\ T1ON = TRUE
    /\ T2ON = FALSE
    /\ PB = [b \in Btn |-> 1]
    /\ pc = "ub_adc"
    /\ i = 0
    /\ blinkStateReg = 0
    /\ t1Seen = FALSE
    /\ t1Ticks = MaxT1Ticks
    /\ passState = ON_MODE
    /\ updates = 0
    /\ uartOut = <<>>
    /\ blinkOffBy2 = "none"
    /\ taps = [b \in Btn |-> 0]
    /\ meter = MeterZero

\* the Timer1 handler, counted over one period
_T1InterruptWindow ==
    /\ meter.t1 < PERIOD
    /\ T1Core
    /\ meter' = [meter EXCEPT !.t1 = @ + 1, !.high = @ + LED']
    /\ UNCHANGED t1Ticks

NextPwm == _T1InterruptWindow

SpecPwm == InitPwm /\ [][NextPwm]_vars

\* ---- presses between two samples ----------------------------------------

\* the program after boot, no button read by IOcheck yet
InitTaps ==
    /\ Boot
    /\ taps = [b \in Btn |-> -1]

\* the program with PB1 (buttons[0]) the only button worked, its presses
\* counted
NextTaps ==
    \/ _CNInterruptCounted(0)
    \/ _T1Interrupt
    \/ _T3Interrupt
    \/ LoopTop
    \/ IOcheckStep
    \/ IOcheckReturn
    \/ OffDelay
    \/ OffLed
    \/ OffStopBlink
    \/ OffStopTimers
    \/ UpdateStart
    \/ \E sample \in Samples : UpdateBase(sample)
    \/ UpdateMode
    \/ StateTransition
    \/ ClearPressed

SpecTaps == InitTaps /\ [][NextTaps]_vars

\* ---- a sensor held at mid scale ------------------------------------------

\* the sample of a sensor whose voltage stays at half the reference
MidScale == SampleValue(1)

\* the button the user of the scenario works in state s: PB1 (buttons[0])
\* in OFF_MODE, PB2 (buttons[1]) in ON_MODE, PB3 (buttons[2]) in ON_BLINK,
\* none from then on
ScenarioButtons(s) ==
    IF s = OFF_MODE THEN {0}
    ELSE IF s = ON_MODE THEN {1}
    ELSE IF s = ON_BLINK THEN {2}
    ELSE {}

\* the Timer1 handler with the budget of the scenario
_T1InterruptScenario == T1Handler(MaxScenarioTicks)

\* the program with the converter returning MidScale at every conversion
\* and the buttons worked in the order PB1, PB2, PB3
Next512 ==
    \/ \E b \in ScenarioButtons(systemState.currentState) : _CNInterrupt(b)
    \/ _T1InterruptScenario
    \/ _T2Interrupt
    \/ _T3Interrupt
    \/ LoopTop
    \/ IOcheckStep
    \/ IOcheckReturn
    \/ OffDelay
    \/ OffLed
    \/ OffStopBlink
    \/ OffStopTimers
    \/ Blink
    \/ UpdateStart
    \/ UpdateBase(MidScale)
    \/ UpdateMode
    \/ UpdateReadBlinkState
    \/ UpdateCurrent
    \/ TransmitVoltageADC
    \/ StateTransition
    \/ ClearPressed

Spec512 == Init /\ [][Next512]_vars

\* ---- a corrupt mode ------------------------------------------------------

\* values of the int behind state_t that name none of the six modes
CorruptModes == {-1} \cup ((TRANSMIT_UART_BLINK + 1)..MaxCorruptMode)

\* default: of the switch; no function is called and no button is tested
DefaultCase ==
    /\ pc = "hst"
    /\ systemState.currentState \notin Modes
    /\ systemState' = [systemState EXCEPT
           !.currentState = CaseDefault(systemState.currentState)]
    /\ t1Seen' = FALSE
    /\ pc' = "clear"
    /\ UNCHANGED <<meter, taps, buttons, buttonFlag, pwmCounter, pwmControl, LED, T1ON,
                   T2ON, PB, i, blinkStateReg, t1Ticks, passState, updates,
                   uartOut, blinkOffBy2>>

\* The program at the top of the loop in OFF_MODE, any of the buttons held
\* down and already sampled, with currentState overwritten by a value that
\* is none of the six modes.
InitCorrupt ==
    /\ \E m \in CorruptModes :
          /\ systemState = [currentState |-> m]
          /\ passState = m
    /\ \E held \in SUBSET Btn :
          /\ PB = [b \in Btn |-> IF b \in held THEN 0 ELSE 1]
          /\ buttons = [b \in Btn |->
                 [pressed |-> 0, newState |-> PB[b], prevState |-> PB[b]]]
    /\ buttonFlag = 0
    /\ pwmCounter = 0
    /\ pwmControl = pwmControlInit
    /\ LED = 0
    /\ T1ON = FALSE
    /\ T2ON = FALSE
    /\ pc = "loop"
    /\ i = 0
    /\ blinkStateReg = 0
    /\ t1Seen = FALSE
    /\ t1Ticks = 0
    /\ updates = 0
    /\ uartOut = <<>>
    /\ blinkOffBy2 = "none"
    /\ taps = [b \in Btn |-> 0]
    /\ meter = MeterZero

NextCorrupt ==
    \/ Next
    \/ DefaultCase

SpecCorrupt == InitCorrupt /\ [][NextCorrupt]_vars

\* ---- the scaling over the whole range of the converter ------------------

\* every value ADC1BUF0 can hold after a 10-bit conversion
AllSamples == 0..ADC_MAX

\* The program in its first pass in ON_MODE, waiting for the first conversion
\* to end: PB1 has been pressed and released, the pass in OFF_MODE has moved
\* to ON_MODE, updateBrightness has started Timer1 and Timer1 has fired.
InitScale ==
    /\ systemState = [currentState |-> ON_MODE]
    /\ buttons = buttonsInit
    /\ buttonFlag = 0
    /\ pwmCounter = 1
    /\ pwmControl = pwmControlInit
    /\ LED = 0
    /\ T1ON = TRUE
    /\ T2ON = FALSE
    /\ PB = [b \in Btn |-> 1]
    /\ pc = "ub_adc"
    /\ i = 0
    /\ blinkStateReg = 0
    /\ t1Seen = TRUE
    /\ t1Ticks = 1
    /\ passState = ON_MODE
    /\ updates = 0
    /\ uartOut = <<>>
    /\ blinkOffBy2 = "none"
    /\ taps = [b \in Btn |-> 0]
    /\ meter = MeterZero

\* the passes in ON_MODE with no button touched, the converter returning any
\* of its values
NextScale ==
    \/ _T1Interrupt
    \/ LoopTop
    \/ UpdateStart
    \/ \E sample \in AllSamples : UpdateBase(sample)
    \/ UpdateMode
    \/ StateTransition
    \/ ClearPressed

SpecScale == InitScale /\ [][NextScale]_vars

\* ---- the program running for ever -----------------------------------------

\* the Timer1 handler, followed for MaxLiveTicks interrupts
_T1InterruptLive == T1Handler(MaxLiveTicks)

\* the interrupts of Timer1 are no longer followed
Timer1Unfollowed == t1Ticks = MaxLiveTicks

\* the conversion of updateBrightness, with the sensor at mid scale
ConversionLive ==
    /\ t1Seen \/ Timer1Unfollowed
    /\ Conversion(MidScale)

\* LED = 0 after delay_ms(20)
OffLedLive ==
    /\ T1ON => (t1Seen \/ Timer1Unfollowed)
    /\ OffLedWrite

\* a step of the main program
MainStep ==
    \/ LoopTop
    \/ IOcheckStep
    \/ IOcheckReturn
    \/ OffDelay
    \/ OffLedLive
    \/ OffStopBlink
    \/ OffStopTimers
    \/ Blink
    \/ UpdateStart
    \/ ConversionLive
    \/ UpdateMode
    \/ UpdateReadBlinkState
    \/ UpdateCurrent
    \/ TransmitVoltageADC
    \/ StateTransition
    \/ ClearPressed

NextLive ==
    \/ \E b \in Btn : _CNInterrupt(b)
    \/ _T1InterruptLive
    \/ _T2Interrupt
    \/ _T3Interrupt
    \/ MainStep

\* the processor always executes the next instruction of main; Timer3, once
\* started by delay_ms, reaches its period, and so does Timer1 while it runs
\* and is followed
Fairness ==
    /\ WF_vars(MainStep)
    /\ WF_vars(_T3Interrupt)
    /\ WF_vars(_T1InterruptLive)

SpecLive == Init /\ [][NextLive]_vars /\ Fairness

\* ---- the mode table of the specification --------------------------------

PB1 == 0
PB2 == 1
PB3 == 2

\* <<mode, button, mode after>> for every edge of the table
TableEdges ==
    { <<OFF_MODE, PB1, ON_MODE>>, <<OFF_MODE, PB2, OFF_BLINK>>,
      <<OFF_BLINK, PB2, OFF_MODE>>,
      <<ON_MODE, PB1, OFF_MODE>>, <<ON_MODE, PB2, ON_BLINK>>,
      <<ON_MODE, PB3, TRANSMIT_UART_ON>>,
      <<ON_BLINK, PB2, ON_MODE>>, <<ON_BLINK, PB3, TRANSMIT_UART_BLINK>>,
      <<TRANSMIT_UART_ON, PB1, OFF_MODE>>,
      <<TRANSMIT_UART_ON, PB2, TRANSMIT_UART_BLINK>>,
      <<TRANSMIT_UART_ON, PB3, ON_MODE>>,
      <<TRANSMIT_UART_BLINK, PB2, TRANSMIT_UART_ON>>,
      <<TRANSMIT_UART_BLINK, PB3, ON_BLINK>> }

HasEdge(s, b) == \E e \in TableEdges : e[1] = s /\ e[2] = b
EdgeTarget(s, b) == (CHOOSE e \in TableEdges : e[1] = s /\ e[2] = b)[3]

FlagsSet == {b \in Btn : buttons[b].pressed # 0}

\* the buttons that are flagged and have an edge in the row of mode s
Firing(s) == {b \in FlagsSet : HasEdge(s, b)}

\* the lowest-numbered (highest-priority) button of a non-empty set
First(S) == CHOOSE b \in S : \A c \in S : b <= c

\* the pass has run its transitions and has not yet cleared the flags
PassEnd == pc = "clear"

\* C1: at the end of every control-loop pass in which at most one pressed flag
\* is set, the mode is the one the transition table gives for the mode the
\* pass started in and that button; it is the starting mode when the table
\* has no edge for the pair or no flag is set.
C1_TableTransition ==
    (PassEnd /\ Cardinality(FlagsSet) <= 1) =>
        systemState.currentState =
            IF FlagsSet # {} /\ HasEdge(passState, First(FlagsSet))
            THEN EdgeTarget(passState, First(FlagsSet))
            ELSE passState

\* a pass that started in OnBlink with only PB3 flagged has ended
C1_Witness ==
    /\ PassEnd
    /\ passState = ON_BLINK
    /\ FlagsSet = {PB3}
    /\ systemState.currentState = TRANSMIT_UART_BLINK

\* the mode changes only in the transition step that ends handleStateTransition
ModeChangesOnlyInTransition ==
    systemState' # systemState => (pc = "trans" /\ pc' = "clear")

\* C2: one transition per pass.  At the end of a pass in which two or three
\* pressed flags are set the mode is the target of the highest-priority
\* flagged button that has an edge in the row of the starting mode (the
\* starting mode if none has); the transition step is the only step that
\* changes the mode; and no flag is left set when the next pass begins.
C2_OneTransitionPerPass ==
    /\ [](  (PassEnd /\ Cardinality(FlagsSet) >= 2) =>
               systemState.currentState =
                   IF Firing(passState) # {}
                   THEN EdgeTarget(passState, First(Firing(passState)))
                   ELSE passState)
    /\ [](pc = "loop" => FlagsSet = {})
    /\ [][ModeChangesOnlyInTransition]_vars

\* a pass that started in OnBlink with all three flags set took the PB2 edge
C2_Witness ==
    /\ PassEnd
    /\ passState = ON_BLINK
    /\ FlagsSet = {PB1, PB2, PB3}
    /\ systemState.currentState = ON_MODE

\* C3: in every reachable state the three duty fields are within 0..period.
C3_DutyInRange ==
    /\ pwmControl.currentDutyCycle \in 0..pwmControl.period
    /\ pwmControl.baseDutyCycle \in 0..pwmControl.period
    /\ pwmControl.blinkDutyCycle \in 0..pwmControl.period

\* the full-scale sample has been scaled to the top of the range and rendered
\* in a blink mode fed by the sensor
C3_Witness ==
    /\ systemState.currentState \in {ON_BLINK, TRANSMIT_UART_BLINK}
    /\ pwmControl.adcValue = ADC_MAX
    /\ pwmControl.baseDutyCycle = pwmControl.period
    /\ pwmControl.blinkDutyCycle = pwmControl.period
    /\ pwmControl.currentDutyCycle = pwmControl.period
    /\ t1Ticks > 0

\* C4: in every reachable state in which blinkEnabled is set the active duty
\* cycle is blinkDutyCycle or 0, also between blink() and the writes of the
\* following updateBrightness.
C4_BlinkInvariant ==
    pwmControl.blinkEnabled # 0 =>
        pwmControl.currentDutyCycle \in {pwmControl.blinkDutyCycle, 0}

\* C5: in every reachable state in which blinkEnabled is clear the active duty
\* cycle equals baseDutyCycle, also right after stopBlink() and in state Off.
C5_SteadyInvariant ==
    pwmControl.blinkEnabled = 0 =>
        pwmControl.currentDutyCycle = pwmControl.baseDutyCycle

\* a step of _T1Interrupt
T1Step == t1Ticks' # t1Ticks

\* C6: after PB2 has disabled blink from OffBlink, OnBlink or TransmitBlink,
\* the first Timer1 interrupt that runs afterwards leaves the active duty
\* cycle equal to baseDutyCycle.
C6_RoundTrip ==
    [][(blinkOffBy2 = "pending" /\ T1Step) =>
           pwmControl'.currentDutyCycle = pwmControl'.baseDutyCycle]_vars

\* blink was disabled from OffBlink in the off phase (active duty 0, base duty
\* at the maximum) and the first Timer1 interrupt afterwards has restored it
C6_Witness ==
    /\ blinkOffBy2 = "done"
    /\ systemState.currentState = OFF_MODE
    /\ pwmControl.blinkEnabled = 0
    /\ pwmControl.blinkState = 0
    /\ pwmControl.baseDutyCycle = pwmControl.period
    /\ pwmControl.currentDutyCycle = pwmControl.baseDutyCycle

\* C7: at the end of every control-loop pass that ran in state Off, and until
\* the next pass begins, the LED is low, blinkEnabled is clear and Timer1 and
\* Timer2 are stopped: no Timer1 interrupt drives the LED high after the pass
\* has written it low.
C7_OffForcesOutputOff ==
    (passState = OFF_MODE /\ pc \in {"clear", "loop"}) =>
        /\ LED = 0
        /\ pwmControl.blinkEnabled = 0
        /\ ~T1ON
        /\ ~T2ON

\* button b was last sampled pressed and has been released since: the
\* change-notification interrupt has fired for a release edge not yet sampled
ReleaseNotified(b) == buttons[b].prevState = 0 /\ PB[b] = 1

\* C8: a release signalled by the change-notification interrupt is visible to
\* the next main-loop iteration: whenever an iteration begins with a release
\* edge notified and not yet sampled, buttonFlag is set, so that the iteration
\* samples the buttons and its state machine sees the pressed flag.
C8_ReleaseVisibleToNextPass ==
    \A b \in Btn : (pc = "loop" /\ ReleaseNotified(b)) => buttonFlag # 0

\* a step of IOcheck that samples button i
SampleStep == pc = "io" /\ i < 3 /\ i' = i + 1

\* the pressed flags produced by sampling the levels of one button in turn,
\* one sample per pass, from the boot record, the flag being cleared after
\* each pass
RECURSIVE EdgeEvents(_, _)
EdgeEvents(b, levels) ==
    IF levels = <<>> THEN <<>>
    ELSE LET nb == IOcheckButton(b, Head(levels))
         IN  <<nb.pressed>> \o EdgeEvents([nb EXCEPT !.pressed = 0], Tail(levels))

BootButton == [pressed |-> 0, newState |-> 1, prevState |-> 1]

\* C9: a sample of a button sets its pressed flag exactly when the level
\* sampled before was pressed (0) and the level sampled now is released (1);
\* after the sample prevState is the level just sampled and the other buttons
\* are untouched; the levels released, released, pressed, released give one
\* pressed event, at the last sample.
C9_EdgeDetection ==
    /\ [][SampleStep =>
            /\ (buttons'[i].pressed # 0) <=>
                   (buttons[i].prevState = 0 /\ PB[i] = 1)
            /\ buttons'[i].prevState = PB[i]
            /\ \A b \in Btn \ {i} : buttons'[b] = buttons[b]]_vars
    /\ [](EdgeEvents(BootButton, <<1, 1, 0, 1>>) = <<0, 0, 0, 1>>)

\* IOcheck has just sampled PB2 released after having sampled it pressed
C9_Witness ==
    /\ pc = "io"
    /\ i = 2
    /\ buttons[1].pressed = 1
    /\ buttons[1].prevState = 1
    /\ buttons[0].pressed = 0

\* C10: telemetry is transmitted exactly once in every pass that starts in
\* TransmitOn or TransmitBlink, after the brightness update of that pass, and
\* never in a pass that starts in another state; a pass that starts in On
\* with only PB3 flagged ends in TransmitOn having transmitted nothing, and a
\* pass that starts in TransmitOn ends after one update and one transmission.
C10_TelemetryOncePerTransmitPass ==
    /\ Len(uartOut) <= 1
    /\ Len(uartOut) = 1 => (passState \in TransmitModes /\ updates = 1)
    /\ PassEnd =>
          /\ Len(uartOut) = IF passState \in TransmitModes THEN 1 ELSE 0
          /\ updates = IF passState = OFF_MODE THEN 0 ELSE 1
    /\ (PassEnd /\ passState = ON_MODE /\ FlagsSet = {PB3}) =>
          (systemState.currentState = TRANSMIT_UART_ON /\ uartOut = <<>>)

\* a pass that started in TransmitBlink has ended after one update and one
\* telemetry line
C10_Witness ==
    /\ PassEnd
    /\ passState = TRANSMIT_UART_BLINK
    /\ updates = 1
    /\ Len(uartOut) = 1

\* C11: whatever sample 0..1023 the converter returns, a brightness update
\* without override leaves baseDutyCycle = floor(sample * period / 1023): the
\* product is neither wrapped nor truncated, the result lies in 0..period and
\* equals period for the sample 1023 only.
C11_ScalingExact ==
    (pc = "ub_mode" /\ Override(systemState.currentState, pwmControl) = 0) =>
        LET s == pwmControl.adcValue
            p == pwmControl.period
            d == pwmControl.baseDutyCycle
        IN  /\ d * ADC_MAX <= s * p
            /\ s * p < (d + 1) * ADC_MAX
            /\ d \in 0..p
            /\ (d = p) <=> (s = ADC_MAX)

\* a sample whose product with the period does not fit a 16-bit int has been
\* scaled
C11_Witness ==
    /\ pc = "ub_mode"
    /\ systemState.currentState = ON_MODE
    /\ pwmControl.adcValue = 700
    /\ pwmControl.baseDutyCycle = 34


\* C12: at the end of every pass that ran in OFF_BLINK the base duty cycle
\* and the blink duty cycle both equal the period, whatever the converter
\* returned, and the active duty cycle is the period in the on-phase of the
\* blink and 0 in its off-phase.
C12_OffBlinkOverride ==
    (PassEnd /\ passState = OFF_BLINK) =>
        /\ pwmControl.baseDutyCycle = pwmControl.period
        /\ pwmControl.blinkDutyCycle = pwmControl.period
        /\ pwmControl.blinkEnabled # 0 =>
             pwmControl.currentDutyCycle =
                IF pwmControl.blinkState # 0 THEN pwmControl.period ELSE 0

\* the part of C12 on the two duty cycles the override writes
OffBlinkBaseIsPeriod ==
    (PassEnd /\ passState = OFF_BLINK) =>
        /\ pwmControl.baseDutyCycle = pwmControl.period
        /\ pwmControl.blinkDutyCycle = pwmControl.period
        /\ pwmControl.currentDutyCycle \in {pwmControl.period, 0}

\* C20: once updateBrightness has completed in a pass with blink enabled, the
\* active duty cycle is the blink duty cycle when the blink phase is on and 0
\* when it is off, wherever Timer2 interrupted the update.
C20_PhaseDutyCoupled ==
    (/\ pwmControl.blinkEnabled # 0
     /\ updates = 1
     /\ pc \in {"tx", "trans", "clear", "loop"}) =>
        pwmControl.currentDutyCycle =
            IF pwmControl.blinkState # 0 THEN pwmControl.blinkDutyCycle ELSE 0


\* C13: a pass that starts with a mode that is none of the six ends with the
\* mode OFF_MODE whatever the pressed flags are, and until it ends nothing
\* updates the brightness, enables or disables blink, starts or stops a timer
\* or transmits telemetry.
C13_DefensiveDefault ==
    /\ []((PassEnd /\ passState \notin Modes) =>
            /\ systemState.currentState = OFF_MODE
            /\ updates = 0
            /\ uartOut = <<>>)
    /\ [][passState \notin Modes =>
            /\ pwmControl' = pwmControl
            /\ T1ON' = T1ON
            /\ T2ON' = T2ON
            /\ updates' = 0
            /\ uartOut' = <<>>]_vars

\* the default case has run with all three pressed flags set
C13_Witness ==
    /\ PassEnd
    /\ passState \notin Modes
    /\ FlagsSet = Btn
    /\ systemState.currentState = OFF_MODE


\* C14: the initial state has the mode OFF_MODE, the three buttons released
\* now, released before and not pressed, the base, blink and active duty
\* cycles 0, blink disabled and the PWM counter 0; and in every reachable
\* state the mode is one of the six modes, so the switch never takes its
\* default branch.
C14_BootState ==
    /\ systemState.currentState = OFF_MODE
    /\ \A b \in Btn : /\ buttons[b].newState = 1
                      /\ buttons[b].prevState = 1
                      /\ buttons[b].pressed = 0
    /\ pwmControl.baseDutyCycle = 0
    /\ pwmControl.blinkDutyCycle = 0
    /\ pwmControl.currentDutyCycle = 0
    /\ pwmControl.blinkEnabled = 0
    /\ pwmCounter = 0
    /\ [](systemState.currentState \in
            {OFF_MODE, OFF_BLINK, ON_MODE, ON_BLINK, TRANSMIT_UART_ON,
             TRANSMIT_UART_BLINK})

\* the switch is about to dispatch on the last of the six modes
C14_Witness ==
    /\ pc = "hst"
    /\ systemState.currentState = TRANSMIT_UART_BLINK
    /\ passState = TRANSMIT_UART_BLINK


\* the steps of updateBrightness between its first write to pwmControl
\* (adcValue, baseDutyCycle) and its last (currentDutyCycle)
InsideUpdate == pc \in {"ub_mode", "ub_read", "ub_cur"}

\* _T2Interrupt is the only writer of blinkState
T2Step == pwmControl'.blinkState # pwmControl.blinkState

\* C15: no Timer1 or Timer2 handler runs on a partially updated pwmControl:
\* none is taken between the first and the last field write of one call of
\* updateBrightness.
C15_AtomicUpdates ==
    [][(T1Step \/ T2Step) => ~InsideUpdate]_vars


\* transmitVoltageADC is the only step from "tx" to "trans"
TxStep == pc = "tx" /\ pc' = "trans"

\* the decimal numeral of the digit d
Numeral(d) == <<"0", "1", "2", "3", "4", "5", "6", "7", "8", "9">>[d + 1]

Field3(n) == <<Numeral(n \div 100), Numeral((n \div 10) % 10), Numeral(n % 10)>>

Field4(n) == <<Numeral(n \div 1000)>> \o Field3(n % 1000)

\* C16: from boot with period 50 and the sensor always at 512: the mode
\* starts OFF_MODE; a pass in ON_MODE leaves baseDutyCycle = 25; a pass in
\* ON_BLINK that PB2 does not end leaves blink enabled with
\* blinkDutyCycle = 25; every telemetry line sent in TRANSMIT_UART_BLINK
\* carries the sample 0512 and the percentage 050 when the blink phase is on
\* and 000 when it is off.
C16_Scenario512 ==
    /\ systemState.currentState = OFF_MODE
    /\ pwmControl.period = 50
    /\ []((PassEnd /\ passState = ON_MODE) => pwmControl.baseDutyCycle = 25)
    /\ []((PassEnd /\ passState = ON_BLINK /\ PB2 \notin FlagsSet) =>
            /\ pwmControl.blinkEnabled # 0
            /\ pwmControl.blinkDutyCycle = 25)
    /\ [][(TxStep /\ passState = TRANSMIT_UART_BLINK) =>
            uartOut' = << Field3(IF pwmControl.blinkState # 0 THEN 50 ELSE 0)
                            \o <<" ">> \o Field4(512) \o <<"\n">> >>]_vars

\* the scenario of C16 without the tie between the percentage and the phase
Scenario512Values ==
    /\ []((PassEnd /\ passState = ON_MODE) => pwmControl.baseDutyCycle = 25)
    /\ []((PassEnd /\ passState = ON_BLINK /\ PB2 \notin FlagsSet) =>
            /\ pwmControl.blinkEnabled # 0
            /\ pwmControl.blinkDutyCycle = 25)
    /\ [][(TxStep /\ passState = TRANSMIT_UART_BLINK) =>
            \E pct \in {50, 0} :
               uartOut' = << Field3(pct) \o <<" ">> \o Field4(512)
                               \o <<"\n">> >>]_vars


\* C17: every telemetry transmission sends, in this order, the percentage
\* floor(currentDutyCycle * 100 / period), which is in 0..100, as three
\* digits, a space, adcValue as four digits and a newline; adcValue is the
\* sample the update of the same pass acquired (the update has completed in
\* this pass and only the conversion step writes adcValue), and in
\* TRANSMIT_UART_ON the percentage is floor(baseDutyCycle * 100 / period).
C17_TelemetryContent ==
    /\ [][TxStep =>
            /\ updates = 1
            /\ \E pct \in 0..100 :
                 /\ pct * pwmControl.period <= pwmControl.currentDutyCycle * 100
                 /\ pwmControl.currentDutyCycle * 100 < (pct + 1) * pwmControl.period
                 /\ uartOut' = Append(uartOut,
                        Field3(pct) \o <<" ">> \o Field4(pwmControl.adcValue)
                          \o <<"\n">>)
                 /\ passState = TRANSMIT_UART_ON =>
                      /\ pct * pwmControl.period <= pwmControl.baseDutyCycle * 100
                      /\ pwmControl.baseDutyCycle * 100 < (pct + 1) * pwmControl.period]_vars
    /\ [][pwmControl'.adcValue # pwmControl.adcValue =>
            (pc = "ub_adc" /\ pc' = "ub_mode")]_vars

\* the line "050 0512" has been sent in a pass in TRANSMIT_UART_ON
C17_Witness ==
    /\ pc = "trans"
    /\ passState = TRANSMIT_UART_ON
    /\ pwmControl.adcValue = 512
    /\ uartOut = << <<"0", "5", "0", " ", "0", "5", "1", "2", "\n">> >>


\* C18: when a button has been pressed and released two or more times since
\* IOcheck last read it, the next read of it sets its pressed flag, so that
\* the presses make exactly one transition, not zero.
C18_PressCollapsing ==
    [][(SampleStep /\ taps[i] >= 2 /\ PB[i] = 1) =>
          buttons'[i].pressed = 1]_vars


\* C19: the period is positive in the initial state and no step of the main
\* loop or of an interrupt handler writes it, so the modulo of the Timer1
\* handler and the division of the telemetry percentage never have a zero
\* divisor.
C19_NoDivisionByZero ==
    /\ pwmControl.period > 0
    /\ [][pwmControl'.period = pwmControl.period]_vars
    /\ [](pwmControl.period # 0)

\* the Timer1 handler has taken the modulo and transmitVoltageADC has divided
C19_Witness ==
    /\ t1Ticks = MaxT1Ticks
    /\ pc = "trans"
    /\ Len(uartOut) = 1
    /\ pwmControl.period = PERIOD


\* C21: every Timer1 interrupt sets the counter to (counter + 1) mod period,
\* so the counter stays in 0..period-1, and leaves the LED high exactly when
\* the counter is below the active duty cycle; over period consecutive
\* interrupts with the active duty cycle at d the LED is high after exactly d
\* of them.
C21_PwmTick ==
    /\ [](pwmCounter >= 0 /\ pwmCounter < pwmControl.period)
    /\ [][meter'.t1 # meter.t1 =>
            /\ pwmCounter' = IF pwmCounter + 1 = pwmControl.period
                             THEN 0 ELSE pwmCounter + 1
            /\ (LED' = 1) <=> (pwmCounter' < pwmControl'.currentDutyCycle)
            /\ LED' \in {0, 1}]_vars
    /\ [](meter.t1 = pwmControl.period =>
            meter.high = pwmControl.currentDutyCycle)

\* a whole period counted across the wrap of the counter at half brightness
C21_Witness ==
    /\ meter.t1 = PERIOD
    /\ meter.high = 25
    /\ pwmCounter = 10

\* the two ends: never high at duty cycle 0, always high at the period
PwmEndsWitness ==
    /\ meter.t1 = PERIOD
    /\ meter.high = PERIOD
    /\ pwmCounter = 49


\* C22: a Timer2 interrupt taken with blink enabled toggles blinkState and
\* sets the active duty cycle to blinkDutyCycle when the new phase is on and
\* to 0 when it is off, leaving every other field; one taken with blink
\* disabled changes no field of pwmControl.
C22_BlinkTick ==
    [][meter'.t2 # meter.t2 =>
          IF pwmControl.blinkEnabled # 0
          THEN /\ pwmControl'.blinkState = 1 - pwmControl.blinkState
               /\ pwmControl'.currentDutyCycle =
                     IF pwmControl'.blinkState = 1
                     THEN pwmControl.blinkDutyCycle ELSE 0
               /\ \A f \in {"period", "baseDutyCycle", "blinkDutyCycle",
                            "blinkEnabled", "adcValue"} :
                     pwmControl'[f] = pwmControl[f]
          ELSE pwmControl' = pwmControl]_vars

\* Timer2 has fired with blink enabled and, inside stopBlink(), after the
\* flag was cleared and before the timer was stopped
C22_Witness ==
    /\ pc = "stop_t2"
    /\ meter.t2 = MaxT2Ticks
    /\ meter.t2off = 1
    /\ pwmControl.blinkState = 0


\* the step that returns from updateBrightness
UpdateEnd == InsideUpdate /\ updates' = updates + 1

\* C23: every brightness update that runs with blink enabled ends with
\* blinkDutyCycle equal to baseDutyCycle, the value computed from the sample
\* acquired in that update; blinkDutyCycle is written nowhere else, so an
\* update that runs with blink disabled leaves it unchanged.
C23_BlinkDutyTracks ==
    /\ [][(UpdateEnd /\ pwmControl.blinkEnabled # 0) =>
             /\ pwmControl'.blinkDutyCycle = pwmControl'.baseDutyCycle
             /\ pwmControl'.baseDutyCycle =
                   IF systemState.currentState = OFF_BLINK
                   THEN pwmControl.period
                   ELSE ScaleADC(pwmControl'.adcValue, pwmControl.period)]_vars
    /\ [][pwmControl'.blinkDutyCycle # pwmControl.blinkDutyCycle =>
             (pc = "ub_mode" /\ pwmControl.blinkEnabled # 0)]_vars
    /\ [][(pc = "ub_adc" \/ InsideUpdate) =>
             (pwmControl'.blinkEnabled = pwmControl.blinkEnabled)]_vars

\* an update in ON_BLINK has brought the on-phase brightness from the full
\* brightness of OFF_BLINK to that of the sample 512
C23_Witness ==
    /\ pc = "trans"
    /\ passState = ON_BLINK
    /\ updates = 1
    /\ pwmControl.blinkEnabled # 0
    /\ pwmControl.adcValue = 512
    /\ pwmControl.blinkDutyCycle = 25
    /\ pwmControl.baseDutyCycle = 25

\* an update with blink disabled has left the on-phase brightness of an
\* earlier blink mode while the base duty cycle moved on
BlinkDutyKeptWitness ==
    /\ pc = "trans"
    /\ passState = ON_MODE
    /\ updates = 1
    /\ pwmControl.blinkEnabled = 0
    /\ pwmControl.blinkDutyCycle = PERIOD
    /\ pwmControl.baseDutyCycle = 25


\* a step of _CNInterrupt, of _T3Interrupt, of IOcheck, of clearPressed()
CNStep == PB' # PB
T3Step == pc = "idle" /\ pc' = "off_led"
IOcheckPart == pc = "io"
ClearStep == pc = "clear"

\* C24: the mode is changed only by the state machine: the Timer1, Timer2,
\* Timer3 and change-notification handlers, IOcheck and clearPressed() leave
\* systemState as it is, and a step that changes the mode is the transition
\* of handleStateTransition.
C24_ModeFrame ==
    /\ [][(T1Step \/ T2Step \/ T3Step \/ CNStep \/ IOcheckPart \/ ClearStep) =>
             systemState' = systemState]_vars
    /\ [][systemState' # systemState =>
             /\ pc = "trans"
             /\ systemState'.currentState =
                   Transition(systemState.currentState, Pressed)]_vars

\* a whole pass in ON_BLINK, with Timer1 and Timer2 interrupts taken and a
\* button held down, has ended and been cleared with the mode still ON_BLINK
C24_Witness ==
    /\ pc = "loop"
    /\ systemState.currentState = ON_BLINK
    /\ passState = ON_BLINK
    /\ t1Ticks = MaxT1Ticks
    /\ pwmControl.blinkState = 1
    /\ PB[2] = 0
    /\ FlagsSet = {}


\* the pressed flags with button b alone set
Single(b) == [c \in Btn |-> IF c = b THEN 1 ELSE 0]

\* the modes one press away from a mode of S, and S
OnePress(S) == S \cup {Transition(s, Single(b)) : s \in S, b \in Btn}

\* the modes some sequence of presses leads to from a mode of S
RECURSIVE ReachableModes(_)
ReachableModes(S) ==
    IF OnePress(S) = S THEN S ELSE ReachableModes(OnePress(S))

\* C25: no terminal mode.  From the mode the program is in some sequence of
\* button presses leads to each of the six modes; ON_BLINK and
\* TRANSMIT_UART_BLINK have no PB1 edge and get to OFF_MODE by PB2 and then
\* PB1; and the main loop starts a pass again and again.
C25_NoTerminalMode ==
    /\ [](ReachableModes({systemState.currentState}) = Modes)
    /\ [](systemState.currentState \in {ON_BLINK, TRANSMIT_UART_BLINK} =>
            /\ Transition(systemState.currentState, Single(PB1))
                  = systemState.currentState
            /\ Transition(Transition(systemState.currentState, Single(PB2)),
                          Single(PB1)) = OFF_MODE)
    /\ []<>(pc = "loop")

\* a pass is about to start in TRANSMIT_UART_BLINK, the mode farthest from
\* OFF_MODE, after a pass that ran in that mode with Timer1 no longer followed
C25_Witness ==
    /\ pc = "loop"
    /\ systemState.currentState = TRANSMIT_UART_BLINK
    /\ passState = TRANSMIT_UART_BLINK
    /\ Timer1Unfollowed


\* C26: one-shot consumption.  Every pass starts with the three pressed
\* flags clear: they are set only by IOcheck, and the loop that ends the pass
\* clears all of them, those of buttons without an edge in the mode of the
\* pass (PB3 in OFF_MODE, PB1 in ON_BLINK) included, so that a flag acts
\* only in the pass that detected it.
C26_OneShot ==
    /\ [](pc = "loop" => FlagsSet = {})
    /\ [][(ClearStep /\ pc' = "loop") => FlagsSet' = {}]_vars
    /\ [][~(FlagsSet' \subseteq FlagsSet) => IOcheckPart]_vars
    /\ [](pc \in {"loop", "io", "hst"} =>
             \A b \in Btn : buttons[b].pressed # 0 =>
                 (pc = "io" /\ b < i) \/ pc = "hst")

\* a pass that ran in OFF_MODE ends with the flag of PB3 set, the mode still
\* OFF_MODE and PB1 held down for the next pass
C26_Witness ==
    /\ PassEnd
    /\ passState = OFF_MODE
    /\ systemState.currentState = OFF_MODE
    /\ FlagsSet = {PB3}
    /\ PB[PB1] = 0

\* the same in ON_BLINK with the flag of PB1
DiscardedInOnBlink ==
    /\ PassEnd
    /\ passState = ON_BLINK
    /\ systemState.currentState = ON_BLINK
    /\ FlagsSet = {PB1}


\* C27: the blink flag follows the mode.  Between two passes of the main
\* loop blinkEnabled set implies that the state is OFF_BLINK, ON_BLINK or
\* TRANSMIT_UART_BLINK, and Timer2 runs exactly when blinkEnabled is set; in
\* a blinking state blinkEnabled is clear there exactly when the pass that
\* has just ended started in a state that does not blink.
C27_BlinkFlagFollowsMode ==
    pc = "loop" =>
        /\ pwmControl.blinkEnabled # 0 => systemState.currentState \in BlinkModes
        /\ T2ON <=> pwmControl.blinkEnabled # 0
        /\ systemState.currentState \in BlinkModes =>
              (pwmControl.blinkEnabled = 0 <=> passState \notin BlinkModes)

\* TRANSMIT_UART_BLINK has just been entered from TRANSMIT_UART_ON: the flag
\* is still clear and Timer2 stopped
C27_Witness ==
    /\ pc = "loop"
    /\ systemState.currentState = TRANSMIT_UART_BLINK
    /\ passState = TRANSMIT_UART_ON
    /\ pwmControl.blinkEnabled = 0
    /\ ~T2ON

\* ON_MODE has been entered from ON_BLINK and the blinking is off
BlinkStoppedWitness ==
    /\ pc = "loop"
    /\ systemState.currentState = ON_MODE
    /\ passState = ON_BLINK
    /\ pwmControl.blinkEnabled = 0
    /\ ~T2ON


\* C28: button liveness.  A button that IOcheck has sampled pressed and
\* that is then released and left released gets its pressed flag set, where
\* the state machine of that pass sees it, wherever _CNInterrupt preempts
\* the main program.
C28_ButtonLiveness ==
    \A b \in Btn :
        (buttons[b].prevState = 0 /\ PB[b] = 1)
            ~> ((buttons[b].pressed # 0 /\ pc = "hst") \/ PB[b] = 0)


\* the step of updateBrightness that reads the converter
ConversionStep == pc = "ub_adc" /\ pc' = "ub_mode"

\* the fields of pwmControl that hold the brightness
Brightness(pwm) ==
    <<pwm.baseDutyCycle, pwm.blinkDutyCycle, pwm.currentDutyCycle,
      pwm.blinkState, pwm.adcValue>>

\* a pass that started in OFF_MODE has stopped the timers and the state is
\* still OFF_MODE
AfterOffPass ==
    /\ systemState.currentState = OFF_MODE
    /\ passState = OFF_MODE
    /\ ~T1ON
    /\ ~T2ON

\* C29: a pass that starts in OFF_BLINK, ON_MODE, ON_BLINK, TRANSMIT_UART_ON
\* or TRANSMIT_UART_BLINK reads the converter exactly once and a pass that
\* starts in OFF_MODE never does; once a pass in OFF_MODE has ended, and for
\* as long as the state stays OFF_MODE, baseDutyCycle, blinkDutyCycle,
\* currentDutyCycle, blinkState and adcValue keep their values.
C29_SensorReads ==
    /\ [][ConversionStep => (passState # OFF_MODE /\ updates = 0)]_vars
    /\ [][pwmControl'.adcValue # pwmControl.adcValue => ConversionStep]_vars
    /\ [][updates' # updates =>
             (updates' = 0 \/ (updates' = 1 /\ InsideUpdate))]_vars
    /\ [](PassEnd => updates = IF passState = OFF_MODE THEN 0 ELSE 1)
    /\ []((pc \in {"clear", "loop"} /\ passState = OFF_MODE
              /\ systemState.currentState = OFF_MODE) => AfterOffPass)
    /\ [][(AfterOffPass /\ systemState'.currentState = OFF_MODE) =>
             /\ AfterOffPass'
             /\ Brightness(pwmControl') = Brightness(pwmControl)]_vars

\* a pass in OFF_MODE has ended, the LED off, with the brightness that the
\* passes in ON_MODE before it left
C29_Witness ==
    /\ pc = "clear"
    /\ AfterOffPass
    /\ updates = 0
    /\ pwmControl.adcValue = 512
    /\ pwmControl.baseDutyCycle = 25
    /\ pwmControl.currentDutyCycle = 25
    /\ LED = 0

\* a pass that started in TRANSMIT_UART_BLINK ends after one conversion
OneReadWitness ==
    /\ PassEnd
    /\ passState = TRANSMIT_UART_BLINK
    /\ updates = 1
    /\ pwmControl.adcValue = ADC_MAX


\* C30: the frame of the Timer1 interrupt.  It never changes baseDutyCycle,
\* blinkDutyCycle, blinkState, blinkEnabled or adcValue (nor the period);
\* with blink enabled it leaves currentDutyCycle too, and with blink
\* disabled currentDutyCycle is the only field of pwmControl it may change,
\* to baseDutyCycle.
C30_PwmTickFrame ==
    [][T1Step =>
          /\ \A f \in {"period", "baseDutyCycle", "blinkDutyCycle",
                       "blinkState", "blinkEnabled", "adcValue"} :
                pwmControl'[f] = pwmControl[f]
          /\ pwmControl'.currentDutyCycle =
                IF pwmControl.blinkEnabled # 0
                THEN pwmControl.currentDutyCycle
                ELSE pwmControl.baseDutyCycle]_vars

\* the first Timer1 interrupt after stopBlink() in the off phase, taken
\* before the flags are cleared, has brought currentDutyCycle to
\* baseDutyCycle
C30_Witness ==
    /\ PassEnd
    /\ passState = ON_BLINK
    /\ systemState.currentState = ON_MODE
    /\ blinkOffBy2 = "done"
    /\ pwmControl.blinkState = 0
    /\ pwmControl.baseDutyCycle = 25
    /\ pwmControl.currentDutyCycle = 25

\* Timer1 interrupts taken with blink enabled in the off phase have left
\* currentDutyCycle at 0
TickInOffPhaseWitness ==
    /\ pc = "loop"
    /\ passState = ON_BLINK
    /\ pwmControl.blinkEnabled # 0
    /\ pwmControl.blinkState = 0
    /\ pwmControl.blinkDutyCycle = 25
    /\ pwmControl.currentDutyCycle = 0
    /\ t1Ticks = MaxT1Ticks
    /\ t1Seen


TypeOK ==
    /\ systemState.currentState \in Modes
    /\ pwmCounter \in 0..255
    /\ LED \in {0, 1}
    /\ buttonFlag \in {0, 1}

====
